---- MODULE Spec2Model ----
(***************************************************************************)
(* Model of DxcArgsFileSystemImpl (dxcfilesystem.cpp): the handle codec,   *)
(* the path normalizer, the included-file registry with its resolver, the  *)
(* directory emulation and the open / query facade.                        *)
(*                                                                         *)
(* A path is a sequence of one-character strings; the C terminator is not  *)
(* stored, reading position Len(p) yields NUL.  A handle is the 32-bit     *)
(* storage unit of HandleBits (Offset in bits 0..7, Length in bits 8..15,  *)
(* Kind in bits 16..19), which is what the file-information index and the  *)
(* CRT descriptor layer keep of a HANDLE.                                  *)
(***************************************************************************)
EXTENDS Integers, Sequences, FiniteSets, TLC

VARIABLES
  m_pSource,                \* size in bytes of the primary source blob
  m_pSourceName,            \* normalized name of the primary source
  m_includedFiles,          \* sequence of [Name, Size]; TLA index i is C index i-1
  m_includeLoader,          \* TRUE iff an include handler was supplied
  m_pOutputStreamName,      \* normalized output name, or NullName
  m_pOutputStream,          \* registered sink id, or NullStream
  m_searchEntries,          \* sequence of normalized search paths
  m_bDisplayIncludeProcess, \* include tracing flag
  m_pStdOutStream,          \* NullStream, or the bytes buffered so far
  m_pStdErrStream,          \* NullStream, or the sequence of trace lines buffered
  dbg,                      \* TRUE iff the build defines DBG (DXASSERT is active)
  aborted,                  \* TRUE once an assertion or a null dereference stopped the process
  lastCall,                 \* the last call and what it returned (handle: the handle
                            \* returned, or the handle or descriptor the call was given)
  sourceHandle,             \* the file handle CreateFileW first returned for the primary
                            \* source name, INVALID_HANDLE_VALUE while it has returned none
  codec,                    \* the triple under test and its encoding (codec specification)
  pathTest,                 \* the paths under test and what the path functions gave for them
  io,                       \* the output sinks' contents and what WriteStdErrToStream
                            \* delivered
  runs                      \* the calls of a run with what each returned, and how far a
                            \* second run of the same calls has come

vars == <<m_pSource, m_pSourceName, m_includedFiles, m_includeLoader, m_pOutputStreamName,
          m_pOutputStream, m_searchEntries, m_bDisplayIncludeProcess,
          m_pStdOutStream, m_pStdErrStream, dbg, aborted, lastCall, sourceHandle, codec,
          pathTest, io, runs>>

-----------------------------------------------------------------------------
(* enum HandleKind, enum SpecialValue *)
HK_Special == 0
HK_File == 1
HK_FileDir == 2
HK_SearchDir == 3
SV_Unknown == 0
SV_StdOut == 1
SV_StdErr == 2
SV_Source == 3
SV_Output == 4

(* Widths of the bit-fields of HandleBits *)
OffsetBits == 8
LengthBits == 8
KindBits == 4

MaxIncludedFiles == 1000

NUL == "NUL"
NullName == <<"NULL">>
NullStream == <<"NULL">>
INVALID_HANDLE_VALUE == 0 - 1

Pow2(n) == 2^n

(* struct HandleBits as stored: each field keeps its low bits only *)
PackBits(offset, length, kind) ==
  (offset % Pow2(OffsetBits))
  + Pow2(OffsetBits) * (length % Pow2(LengthBits))
  + Pow2(OffsetBits + LengthBits) * (kind % Pow2(KindBits))

(* DxcArgsHandle(HandleKind HK, unsigned fileIndex, unsigned dirLength) *)
DxcArgsHandle3(HK, fileIndex, dirLength) == PackBits(fileIndex, dirLength, HK)

(* DxcArgsHandle(unsigned fileIndex) *)
DxcArgsHandleFile(fileIndex) == PackBits(fileIndex, 0, HK_File)

(* DxcArgsHandle(SpecialValue V) *)
DxcArgsHandleSpecial(V) == PackBits(V, 0, HK_Special)

BitsOffset(h) == h % Pow2(OffsetBits)
Length(h) == (h \div Pow2(OffsetBits)) % Pow2(LengthBits)
GetKind(h) == (h \div Pow2(OffsetBits + LengthBits)) % Pow2(KindBits)
IsFileKind(h) == GetKind(h) = HK_File
IsSpecialUnknown(h) == h = 0
IsDirHandle(h) == GetKind(h) = HK_FileDir \/ GetKind(h) = HK_SearchDir
GetFileIndex(h) == BitsOffset(h)
GetSpecialValue(h) == BitsOffset(h)
IsStdHandle(h) ==
  GetKind(h) = HK_Special /\ (GetSpecialValue(h) = SV_StdErr \/ GetSpecialValue(h) = SV_StdOut)

UnknownHandle == DxcArgsHandleSpecial(SV_Unknown)
StdOutHandle == DxcArgsHandleSpecial(SV_StdOut)
StdErrHandle == DxcArgsHandleSpecial(SV_StdErr)
OutputHandle == DxcArgsHandleSpecial(SV_Output)

(* decode: the (kind, index, length) triple a handle carries *)
Decode(h) == [kind |-> GetKind(h), index |-> BitsOffset(h), length |-> Length(h)]

-----------------------------------------------------------------------------
(* Path normalizer *)
At(Path, i) == IF i < Len(Path) THEN Path[i + 1] ELSE NUL

(* Either separator is taken after "." , after the disk designator and in  *)
(* the doubled prefix, and nothing else is rooted                          *)
IsAbsoluteOrCurDirRelativeW_EitherSeparator(Path) ==
  IF Path = NullName \/ Len(Path) = 0 THEN FALSE
  ELSE \/ At(Path, 0) = "." /\ (At(Path, 1) = NUL \/ At(Path, 1) = "/")
       \/ At(Path, 1) = ":" /\ (At(Path, 2) = "\\" \/ At(Path, 2) = "/")
       \/ /\ At(Path, 0) = "\\" \/ At(Path, 0) = "/"
          /\ At(Path, 1) = "\\" \/ At(Path, 1) = "/"

IsAbsoluteOrCurDirRelativeW(Path) ==
  IF Path = NullName \/ Len(Path) = 0 THEN FALSE
  ELSE IF At(Path, 0) = "."
    THEN At(Path, 1) = NUL \/ At(Path, 1) = "/" \/ At(Path, 1) = "\\"
  ELSE IF At(Path, 1) = ":" /\ At(Path, 2) = "\\" THEN TRUE
  ELSE IF At(Path, 0) = "\\" THEN At(Path, 1) = "\\"
  ELSE FALSE

(* The path is used as given *)
MakeAbsoluteOrCurDirRelativeW_AsGiven(Path) == Path

(* The prefix is put in front of every path *)
MakeAbsoluteOrCurDirRelativeW_AlwaysPrefix(Path) == <<".", "/">> \o Path

MakeAbsoluteOrCurDirRelativeW(Path) ==
  IF IsAbsoluteOrCurDirRelativeW(Path) THEN Path ELSE <<".", "/">> \o Path

-----------------------------------------------------------------------------
(* Included-file registry and directory emulation *)
IsSeparator(c) == c = "\\" \/ c = "/"

(* Any proper prefix counts as a directory *)
IsDirOf_AnyPrefix(lpDir, dirLen, fileName) ==
  /\ Len(fileName) > dirLen
  /\ \A k \in 1..dirLen : At(lpDir, k - 1) = fileName[k]

(* Callers pass dirLen = wcslen(lpDir) >= 1 (a normalized path is never empty). *)
IsDirOf(lpDir, dirLen, fileName) ==
  IF Len(fileName) <= dirLen THEN FALSE
  ELSE IF ~(\A k \in 1..dirLen : At(lpDir, k - 1) = fileName[k]) THEN FALSE
  ELSE IF IsSeparator(At(lpDir, dirLen - 1)) THEN TRUE
  ELSE IsSeparator(At(fileName, dirLen))

IsDirPrefixOrSame(lpDir, dirLen, path) ==
  IF lpDir = path THEN TRUE ELSE IsDirOf(lpDir, dirLen, path)

MinOf(S) == CHOOSE i \in S : \A j \in S : i <= j

TryFindDirHandle(lpDir) ==
  LET dirLen == Len(lpDir)
      inFiles == {i \in 1..Len(m_includedFiles) :
                    IsDirOf(lpDir, dirLen, m_includedFiles[i].Name)}
      inSearch == {i \in 1..Len(m_searchEntries) :
                    IsDirPrefixOrSame(lpDir, dirLen, m_searchEntries[i])}
  IN IF inFiles # {} THEN DxcArgsHandle3(HK_FileDir, MinOf(inFiles) - 1, dirLen)
     ELSE IF inSearch # {} THEN DxcArgsHandle3(HK_SearchDir, MinOf(inSearch) - 1, dirLen)
     ELSE INVALID_HANDLE_VALUE

(* One trace line: "Opening file [name], stack top [index-1]" *)
TraceLine(lpFileName, index) == <<lpFileName, index - 1>>

(* The scan of TryFindOrOpen finds nothing *)
FindIncluded_Miss(lpFileName) == {}

(* Indexes (TLA) of the entries whose name is lpFileName *)
FindIncluded(lpFileName) ==
  {i \in 1..Len(m_includedFiles) : m_includedFiles[i].Name = lpFileName}

(* The new entry is put first *)
EmplaceBack_Front(files, entry) == <<entry>> \o files

(* m_includedFiles.emplace_back *)
EmplaceBack(files, entry) == Append(files, entry)

(* The capacity test lets one more entry in *)
AtCapacity_Late(size) == size = MaxIncludedFiles + 1

AtCapacity(size) == size = MaxIncludedFiles

(* A LoadSource that succeeds with no blob is registered as an empty file *)
TryFindOrOpen_NoBlobRegistered(lpFileName, ans) ==
  LET hit == FindIncluded(lpFileName)
      same == [err |-> "ERROR_SUCCESS", index |-> 0, files |-> m_includedFiles,
               stderr |-> m_pStdErrStream, loaded |-> FALSE, crash |-> FALSE]
  IN IF hit # {} THEN [same EXCEPT !.index = MinOf(hit) - 1]
     ELSE IF ~m_includeLoader THEN [same EXCEPT !.err = "ERROR_NOT_FOUND"]
     ELSE IF AtCapacity(Len(m_includedFiles))
       THEN [same EXCEPT !.err = "ERROR_OUT_OF_STRUCTURES"]
     ELSE IF ans.kind = "fail" \/ ans.kind = "badblob"
       THEN [same EXCEPT !.err = "ERROR_UNHANDLED_EXCEPTION", !.loaded = TRUE]
     ELSE [same EXCEPT !.index = Len(m_includedFiles), !.loaded = TRUE,
                       !.files = EmplaceBack(m_includedFiles,
                                             [Name |-> lpFileName, Size |-> ans.size])]

(* What LoadSource and the blob helpers answer in one call:                 *)
(*   fail    LoadSource returns a failure HRESULT                           *)
(*   none    LoadSource succeeds with no blob                               *)
(*   badblob DxcGetBlobAsUtf8 or CreateReadOnlyBlobStream fails             *)
(*   blob    a blob of ans.size bytes and its stream                        *)
(* Result: the error code, the index, the registry and standard-error      *)
(* buffer afterwards, whether LoadSource was invoked, and whether the      *)
(* trace write dereferenced a null stream.                                 *)
TryFindOrOpen(lpFileName, ans) ==
  LET hit == FindIncluded(lpFileName)
      same == [err |-> "ERROR_SUCCESS", index |-> 0, files |-> m_includedFiles,
               stderr |-> m_pStdErrStream, loaded |-> FALSE, crash |-> FALSE]
  IN IF hit # {} THEN [same EXCEPT !.index = MinOf(hit) - 1]
     ELSE IF ~m_includeLoader THEN [same EXCEPT !.err = "ERROR_NOT_FOUND"]
     ELSE IF AtCapacity(Len(m_includedFiles))
       THEN [same EXCEPT !.err = "ERROR_OUT_OF_STRUCTURES"]
     ELSE IF ans.kind = "fail"
       THEN [same EXCEPT !.err = "ERROR_UNHANDLED_EXCEPTION", !.loaded = TRUE]
     ELSE IF ans.kind = "none"
       THEN [same EXCEPT !.err = "ERROR_NOT_FOUND", !.loaded = TRUE]
     ELSE IF ans.kind = "badblob"
       THEN [same EXCEPT !.err = "ERROR_UNHANDLED_EXCEPTION", !.loaded = TRUE]
     ELSE LET files == EmplaceBack(m_includedFiles, [Name |-> lpFileName, Size |-> ans.size])
              index == Len(files) - 1
          IN [err |-> "ERROR_SUCCESS", index |-> index, files |-> files,
              stderr |-> IF m_bDisplayIncludeProcess /\ m_pStdErrStream # NullStream
                           THEN Append(m_pStdErrStream, TraceLine(lpFileName, index))
                           ELSE m_pStdErrStream,
              loaded |-> TRUE,
              crash |-> m_bDisplayIncludeProcess /\ m_pStdErrStream = NullStream]

IncludedFileIndexToHandle(index) == DxcArgsHandleFile(index)

(* Every handle value counts as known *)
IsKnownHandle_Any(h) == TRUE

IsKnownHandle(h) == ~IsSpecialUnknown(h)

-----------------------------------------------------------------------------
(* Facade: what CreateFileW and GetFileAttributesW compute in the current  *)
(* state.  err is "unset" when the call does not call SetLastError.        *)
Answer(handle, attr, err, r, load) ==
  [handle |-> handle, attr |-> attr, err |-> err, files |-> r.files,
   stderr |-> r.stderr, load |-> load, crash |-> r.crash]

Untouched ==
  [files |-> m_includedFiles, stderr |-> m_pStdErrStream, crash |-> FALSE]

(* CreateFileW with the directory emulation tried before the output match *)
CreateFileWResult_DirFirst(lpFileName, ans) ==
  LET name == MakeAbsoluteOrCurDirRelativeW(lpFileName)
      dirHandle == TryFindDirHandle(name)
      r == TryFindOrOpen(name, ans)
      load == IF r.loaded THEN name ELSE NullName
  IN IF dirHandle # INVALID_HANDLE_VALUE
       THEN Answer(dirHandle, "none", "unset", Untouched, NullName)
     ELSE IF m_pOutputStreamName # NullName /\ name = m_pOutputStreamName
       THEN Answer(OutputHandle, "none", "unset", Untouched, NullName)
     ELSE IF r.err = "ERROR_SUCCESS"
       THEN Answer(IncludedFileIndexToHandle(r.index), "none", "unset", r, load)
     ELSE Answer(INVALID_HANDLE_VALUE, "none", r.err, r, load)

(* CreateFileW resolving the path before the directory emulation is tried *)
CreateFileWResult_ResolveFirst(lpFileName, ans) ==
  LET name == MakeAbsoluteOrCurDirRelativeW(lpFileName)
      dirHandle == TryFindDirHandle(name)
      r == TryFindOrOpen(name, ans)
      load == IF r.loaded THEN name ELSE NullName
  IN IF m_pOutputStreamName # NullName /\ name = m_pOutputStreamName
       THEN Answer(OutputHandle, "none", "unset", Untouched, NullName)
     ELSE IF dirHandle # INVALID_HANDLE_VALUE
       THEN Answer(dirHandle, "none", "unset", r, load)
     ELSE IF r.err = "ERROR_SUCCESS"
       THEN Answer(IncludedFileIndexToHandle(r.index), "none", "unset", r, load)
     ELSE Answer(INVALID_HANDLE_VALUE, "none", r.err, r, load)

CreateFileWResult(lpFileName, ans) ==
  LET name == MakeAbsoluteOrCurDirRelativeW(lpFileName)
      dirHandle == TryFindDirHandle(name)
      r == TryFindOrOpen(name, ans)
      load == IF r.loaded THEN name ELSE NullName
  IN IF m_pOutputStreamName # NullName /\ name = m_pOutputStreamName
       THEN Answer(OutputHandle, "none", "unset", Untouched, NullName)
     ELSE IF dirHandle # INVALID_HANDLE_VALUE
       THEN Answer(dirHandle, "none", "unset", Untouched, NullName)
     ELSE IF r.err = "ERROR_SUCCESS"
       THEN Answer(IncludedFileIndexToHandle(r.index), "none", "unset", r, load)
     ELSE Answer(INVALID_HANDLE_VALUE, "none", r.err, r, load)

GetFileAttributesWResult(lpFileName, ans) ==
  LET name == MakeAbsoluteOrCurDirRelativeW(lpFileName)
      r == TryFindOrOpen(name, ans)
      load == IF r.loaded THEN name ELSE NullName
  IN IF Len(name) = Len(m_pSourceName) /\ name = m_pSourceName
       THEN Answer(UnknownHandle, "FILE_ATTRIBUTE_NORMAL", "unset", Untouched, NullName)
     ELSE IF m_pOutputStreamName # NullName /\ m_pOutputStreamName = name
       THEN Answer(UnknownHandle, "FILE_ATTRIBUTE_NORMAL", "unset", Untouched, NullName)
     ELSE IF TryFindDirHandle(name) # INVALID_HANDLE_VALUE
       THEN Answer(UnknownHandle, "FILE_ATTRIBUTE_DIRECTORY", "unset", Untouched, NullName)
     ELSE IF r.err = "ERROR_SUCCESS"
       THEN Answer(UnknownHandle, "FILE_ATTRIBUTE_NORMAL", "unset", r, load)
     ELSE Answer(UnknownHandle, "INVALID_FILE_ATTRIBUTES", r.err, r, load)

(* HandleToIncludedFile: the entry a file-kind handle selects (C index) *)
HandleToIncludedFile(handle) == m_includedFiles[GetFileIndex(handle) + 1]

(* GetStreamForHandle: which stream object the handle selects *)
GetStreamForHandle(handle) ==
  IF handle = OutputHandle THEN [stream |-> "output", index |-> 0]
  ELSE IF handle = StdOutHandle THEN [stream |-> "stdout", index |-> 0]
  ELSE IF handle = StdErrHandle THEN [stream |-> "stderr", index |-> 0]
  ELSE IF GetKind(handle) = HK_File
    THEN [stream |-> "BlobStream", index |-> GetFileIndex(handle)]
  ELSE [stream |-> "null", index |-> 0]

(* GetFileInformationByHandle for a file-kind handle: nFileSizeLow *)
FileSizeByHandle(hFile) == HandleToIncludedFile(hFile).Size

-----------------------------------------------------------------------------
(* Bounds and input sets *)
MaxBlobSize == 1
MaxSearchEntries == 2
NameBits == 10

P_a == <<"a">>
P_dot_a == <<".", "/", "a">>
P_dot_a_b == <<".", "/", "a", "/", "b">>
P_dot_ab == <<".", "/", "a", "b">>
P_o == <<"o">>
P_dot_o == <<".", "/", "o">>

SourceNames == {P_dot_a, P_o}
InputPaths == {P_a, P_dot_a, P_dot_a_b, P_dot_o}
OutputRegs == {[name |-> P_o, sink |-> <<"sinkA">>], [name |-> P_dot_a, sink |-> <<"sinkB">>]}
SearchLists == {<<P_a>>}
BlobSizes == 1..MaxBlobSize
LoaderAnswers ==
  {[kind |-> k, size |-> 0] : k \in {"fail", "none", "badblob"}}
  \cup {[kind |-> "blob", size |-> MaxBlobSize + 1]}

NoCall == [op |-> "none", arg |-> NullName, handle |-> UnknownHandle,
           attr |-> "none", err |-> "unset", load |-> NullName, ret |-> 0]

Returned(op, arg, r) ==
  [op |-> IF r.crash THEN "abort" ELSE op, arg |-> arg, handle |-> r.handle,
   attr |-> r.attr, err |-> r.err, load |-> r.load, ret |-> 0]

Plain(op, arg) == [NoCall EXCEPT !.op = op, !.arg = arg]

OutputSinks == {<<"sinkA">>, <<"sinkB">>}

NoIO == [out |-> [s \in OutputSinks |-> <<>>],
         drained |-> <<>>, drains |-> 0, repeat |-> FALSE]

NoPathTest == [d |-> <<>>, f |-> <<>>, stage |-> "off", rooted |-> FALSE,
               norm |-> <<>>, again |-> <<>>, match |-> FALSE]

NoRuns == [phase |-> "off", script |-> <<>>, pos |-> 0]

NoCodec == [kind |-> 0, index |-> 0, length |-> 0, handle |-> 0, stage |-> "off",
            decoded |-> [kind |-> 0, index |-> 0, length |-> 0]]

-----------------------------------------------------------------------------
(* Operations *)

(* DxcArgsFileSystemImpl::DxcArgsFileSystemImpl *)
Construct(pSourceName, sourceSize, pHandler, build) ==
  /\ m_pSource = sourceSize
  /\ m_pSourceName = MakeAbsoluteOrCurDirRelativeW(pSourceName)
  /\ m_includedFiles = <<[Name |-> MakeAbsoluteOrCurDirRelativeW(pSourceName),
                          Size |-> sourceSize]>>
  /\ m_includeLoader = pHandler
  /\ m_bDisplayIncludeProcess = FALSE
  /\ m_pOutputStreamName = NullName
  /\ m_pOutputStream = NullStream
  /\ m_searchEntries = <<>>
  /\ m_pStdOutStream = NullStream
  /\ m_pStdErrStream = NullStream
  /\ dbg = build
  /\ aborted = FALSE
  /\ lastCall = NoCall
  /\ sourceHandle = INVALID_HANDLE_VALUE

CreateFileWCall(lpFileName, ans) ==
  /\ ~aborted
  /\ \E r \in {CreateFileWResult(lpFileName, ans)} :
        /\ m_includedFiles' = r.files
        /\ m_pStdErrStream' = r.stderr
        /\ aborted' = r.crash
        /\ lastCall' = Returned("CreateFileW", lpFileName, r)
        /\ sourceHandle' =
             IF /\ ~r.crash
                /\ IsFileKind(r.handle)
                /\ MakeAbsoluteOrCurDirRelativeW(lpFileName) = m_pSourceName
                /\ sourceHandle = INVALID_HANDLE_VALUE
               THEN r.handle
               ELSE sourceHandle
  /\ UNCHANGED <<m_pSource, m_pSourceName, m_includeLoader, m_pOutputStreamName, m_pOutputStream,
                 m_searchEntries, m_bDisplayIncludeProcess, m_pStdOutStream, dbg, codec, pathTest, io>>

CreateFileW(lpFileName, ans) == CreateFileWCall(lpFileName, ans) /\ UNCHANGED runs

GetFileAttributesWCall(lpFileName, ans) ==
  /\ ~aborted
  /\ \E r \in {GetFileAttributesWResult(lpFileName, ans)} :
        /\ m_includedFiles' = r.files
        /\ m_pStdErrStream' = r.stderr
        /\ aborted' = r.crash
        /\ lastCall' = Returned("GetFileAttributesW", lpFileName, r)
  /\ UNCHANGED <<m_pSource, m_pSourceName, m_includeLoader, m_pOutputStreamName, m_pOutputStream,
                 m_searchEntries, m_bDisplayIncludeProcess, m_pStdOutStream, dbg, sourceHandle,
                 codec, pathTest, io>>

GetFileAttributesW(lpFileName, ans) == GetFileAttributesWCall(lpFileName, ans) /\ UNCHANGED runs

(* DXASSERT stops a DBG build; other builds carry on past it. *)
RegisterOutputStream(pName, pStream) ==
  /\ ~aborted
  /\ IF dbg /\ m_pOutputStream # NullStream
       THEN /\ aborted' = TRUE
            /\ lastCall' = Plain("abort", pName)
            /\ UNCHANGED <<m_pOutputStream, m_pOutputStreamName>>
       ELSE /\ m_pOutputStream' = pStream
            /\ m_pOutputStreamName' = MakeAbsoluteOrCurDirRelativeW(pName)
            /\ lastCall' = Plain("RegisterOutputStream", pName)
            /\ UNCHANGED aborted
  /\ UNCHANGED <<m_pSource, m_pSourceName, m_includedFiles, m_includeLoader, m_searchEntries,
                 m_bDisplayIncludeProcess, m_pStdOutStream, m_pStdErrStream, dbg, sourceHandle,
                 codec, pathTest, io, runs>>

(* The narrow-character test the search entries go through. *)
IsAbsoluteOrCurDirRelative(Path) ==
  \/ Len(Path) >= 2 /\ Path[1] = "." /\ Path[2] = "/"
  \/ Path = <<".">>
  \/ Len(Path) >= 3 /\ Path[2] = ":" /\ IsSeparator(Path[3])
  \/ Len(Path) >= 2 /\ IsSeparator(Path[1]) /\ IsSeparator(Path[2])

SearchEntryFor(Path) ==
  IF IsAbsoluteOrCurDirRelative(Path) THEN Path ELSE <<".", "/">> \o Path

SetupForCompilerInstance(entries) ==
  /\ ~aborted
  /\ Len(m_searchEntries) + Len(entries) <= MaxSearchEntries
  /\ IF dbg /\ Len(m_searchEntries) # 0
       THEN /\ aborted' = TRUE
            /\ lastCall' = Plain("abort", NullName)
            /\ UNCHANGED m_searchEntries
       ELSE IF Len(entries) > MaxIncludedFiles
         THEN /\ lastCall' = [Plain("SetupForCompilerInstance", NullName)
                                EXCEPT !.err = "ERROR_OUT_OF_STRUCTURES"]
              /\ UNCHANGED <<m_searchEntries, aborted>>
         ELSE /\ m_searchEntries' =
                   m_searchEntries \o [i \in 1..Len(entries) |-> SearchEntryFor(entries[i])]
              /\ lastCall' = Plain("SetupForCompilerInstance", NullName)
              /\ UNCHANGED aborted
  /\ UNCHANGED <<m_pSource, m_pSourceName, m_includedFiles, m_includeLoader, m_pOutputStreamName,
                 m_pOutputStream, m_bDisplayIncludeProcess, m_pStdOutStream,
                 m_pStdErrStream, dbg, sourceHandle, codec, pathTest, io, runs>>

EnableDisplayIncludeProcessCall ==
  /\ ~aborted
  /\ m_bDisplayIncludeProcess' = TRUE
  /\ lastCall' = Plain("EnableDisplayIncludeProcess", NullName)
  /\ UNCHANGED <<m_pSource, m_pSourceName, m_includedFiles, m_includeLoader, m_pOutputStreamName,
                 m_pOutputStream, m_searchEntries, m_pStdOutStream, m_pStdErrStream, dbg,
                 aborted, sourceHandle, codec, pathTest, io>>

EnableDisplayIncludeProcess == EnableDisplayIncludeProcessCall /\ UNCHANGED runs

(* ok: whether both memory streams could be allocated *)
CreateStdStreamsCall(ok) ==
  /\ ~aborted
  /\ IF dbg /\ m_pStdOutStream # NullStream
       THEN /\ aborted' = TRUE
            /\ lastCall' = Plain("abort", NullName)
            /\ UNCHANGED <<m_pStdOutStream, m_pStdErrStream>>
       ELSE /\ m_pStdOutStream' = IF ok THEN <<>> ELSE NullStream
            /\ m_pStdErrStream' = IF ok THEN <<>> ELSE NullStream
            /\ lastCall' = [Plain("CreateStdStreams", NullName)
                              EXCEPT !.err = IF ok THEN "S_OK" ELSE "E_OUTOFMEMORY"]
            /\ UNCHANGED aborted
  /\ UNCHANGED <<m_pSource, m_pSourceName, m_includedFiles, m_includeLoader, m_pOutputStreamName,
                 m_pOutputStream, m_searchEntries, m_bDisplayIncludeProcess, dbg, sourceHandle,
                 codec, pathTest, io>>

CreateStdStreams(ok) == CreateStdStreamsCall(ok) /\ UNCHANGED runs

-----------------------------------------------------------------------------
(* The adapter driven with the small path set *)
Init ==
  /\ \E n \in SourceNames, size \in BlobSizes, h \in BOOLEAN, b \in BOOLEAN :
       Construct(n, size, h, b)
  /\ codec = NoCodec
  /\ pathTest = NoPathTest
  /\ io = NoIO
  /\ runs = NoRuns

Next ==
  \/ \E p \in InputPaths, ans \in LoaderAnswers : CreateFileW(p, ans)
  \/ \E p \in InputPaths, ans \in LoaderAnswers : GetFileAttributesW(p, ans)
  \/ \E reg \in OutputRegs : RegisterOutputStream(reg.name, reg.sink)
  \/ \E l \in SearchLists : SetupForCompilerInstance(l)
  \/ EnableDisplayIncludeProcess
  \/ \E ok \in BOOLEAN : CreateStdStreams(ok)

Spec == Init /\ [][Next]_vars

-----------------------------------------------------------------------------
(* The handle codec applied to every triple the other components can form:  *)
(* a dynamic kind, an index below the registry bound, a directory length.   *)
CodecKinds == {HK_File, HK_FileDir, HK_SearchDir}
CodecIndexes == 0..(MaxIncludedFiles - 1)
CodecLengths == {0, 1, 2, 255, 256, 257}
CodecProbes ==
  [kind : CodecKinds, index : {0, 1, 255, 256, MaxIncludedFiles - 1}, length : CodecLengths]

Quiet ==
  /\ Construct(P_dot_a, 1, TRUE, FALSE)
  /\ pathTest = NoPathTest
  /\ io = NoIO
  /\ runs = NoRuns

InitCodec ==
  /\ Quiet
  /\ \E k \in CodecKinds, i \in CodecIndexes, l \in CodecLengths :
       codec = [NoCodec EXCEPT !.kind = k, !.index = i, !.length = l, !.stage = "triple"]

Encode ==
  /\ codec.stage = "triple"
  /\ codec' = [codec EXCEPT !.handle = DxcArgsHandle3(codec.kind, codec.index, codec.length),
                            !.stage = "encoded"]
  /\ UNCHANGED <<m_pSource, m_pSourceName, m_includedFiles, m_includeLoader, m_pOutputStreamName,
                 m_pOutputStream, m_searchEntries, m_bDisplayIncludeProcess,
                 m_pStdOutStream, m_pStdErrStream, dbg, aborted, lastCall, sourceHandle,
                 pathTest, io, runs>>

DecodeHandle ==
  /\ codec.stage = "encoded"
  /\ codec' = [codec EXCEPT !.decoded = Decode(codec.handle), !.stage = "decoded"]
  /\ UNCHANGED <<m_pSource, m_pSourceName, m_includedFiles, m_includeLoader, m_pOutputStreamName,
                 m_pOutputStream, m_searchEntries, m_bDisplayIncludeProcess,
                 m_pStdOutStream, m_pStdErrStream, dbg, aborted, lastCall, sourceHandle,
                 pathTest, io, runs>>

NextCodec == Encode \/ DecodeHandle

SpecCodec == InitCodec /\ [][NextCodec]_vars

Triple(c) == [kind |-> c.kind, index |-> c.index, length |-> c.length]

(* C1: encoding then decoding a (kind, index, length) triple with a dynamic *)
(* kind, an index below MaxIncludedFiles and a path length gives back the   *)
(* triple, and no other such triple has the same handle.                    *)
C1_RoundTripInjective ==
  /\ codec.stage = "decoded" => codec.decoded = Triple(codec)
  /\ codec.stage # "triple" =>
       \A t \in CodecProbes :
         t # Triple(codec) => DxcArgsHandle3(t.kind, t.index, t.length) # codec.handle

-----------------------------------------------------------------------------
(* The adapter driven with a resolver that returns bytes for every path and *)
(* a supply of distinct include names, none a prefix of another, opened and *)
(* queried in order together with the names already registered.             *)
RECURSIVE Digits(_, _)
Digits(n, width) ==
  IF width = 0 THEN <<>>
  ELSE Append(Digits(n \div 2, width - 1), IF n % 2 = 0 THEN "0" ELSE "1")

(* The n-th include lies in the directory numbered by the part of n above   *)
(* the handle's index field.                                                *)
IncludeDir(n) == <<".", "/">> \o Digits(n \div Pow2(OffsetBits), NameBits - OffsetBits)

IncludeName(n) ==
  IncludeDir(n) \o <<"/">> \o Digits(n % Pow2(OffsetBits), OffsetBits)

FillPaths ==
  {IncludeName(Len(m_includedFiles))}
  \cup (IF Len(m_includedFiles) > 1 THEN {IncludeName(Len(m_includedFiles) - 1)} ELSE {})

FillAnswers == {[kind |-> "blob", size |-> MaxBlobSize + 1]}

InitFill ==
  /\ \E n \in SourceNames : Construct(n, 1, TRUE, FALSE)
  /\ codec = NoCodec
  /\ pathTest = NoPathTest
  /\ io = NoIO
  /\ runs = NoRuns

NextFill ==
  \/ \E p \in FillPaths, ans \in FillAnswers : CreateFileW(p, ans)
  \/ \E p \in FillPaths, ans \in FillAnswers : GetFileAttributesW(p, ans)

SpecFill == InitFill /\ [][NextFill]_vars

(* The same, with the directory of the include registered last opened and   *)
(* queried as well.                                                         *)
DirProbes ==
  IF Len(m_includedFiles) > 1 THEN {IncludeDir(Len(m_includedFiles) - 1)} ELSE {}

NextDirs ==
  \/ \E p \in FillPaths, ans \in FillAnswers : CreateFileW(p, ans)
  \/ \E p \in FillPaths, ans \in FillAnswers : GetFileAttributesW(p, ans)
  \/ \E d \in DirProbes, ans \in FillAnswers : CreateFileW(d, ans)
  \/ \E d \in DirProbes, ans \in FillAnswers : GetFileAttributesW(d, ans)

SpecDirs == InitFill /\ [][NextDirs]_vars

-----------------------------------------------------------------------------
(* The adapter used for opens and attribute queries only *)
NextOpen ==
  \/ \E p \in InputPaths, ans \in LoaderAnswers : CreateFileW(p, ans)
  \/ \E p \in InputPaths, ans \in LoaderAnswers : GetFileAttributesW(p, ans)

SpecOpen == Init /\ [][NextOpen]_vars

-----------------------------------------------------------------------------
RegisteredNames == {m_includedFiles[i].Name : i \in 1..Len(m_includedFiles)}

IsOpenOrQuery(call) == call.op = "CreateFileW" \/ call.op = "GetFileAttributesW"

(* C2: exact-match caching.  In every state, resolving the name of any      *)
(* registered entry returns that entry's index (the one returned when it    *)
(* was appended) without invoking the resolver, whatever the resolver would *)
(* answer; and no open or attribute query ever hands the resolver a name    *)
(* that is already registered.                                              *)
C2_CachedResolve ==
  \A i \in 1..Len(m_includedFiles), ans \in LoaderAnswers :
    LET r == TryFindOrOpen(m_includedFiles[i].Name, ans)
    IN r.err = "ERROR_SUCCESS" /\ r.index = i - 1 /\ ~r.loaded /\ r.files = m_includedFiles

C2_ExactMatchCaching ==
  /\ [](C2_CachedResolve)
  /\ [][lastCall'.load \notin RegisteredNames]_vars

(* A resolved include is opened again: answered from the registry. *)
C2_Witness ==
  /\ lastCall.op = "CreateFileW"
  /\ lastCall.load = NullName
  /\ \E i \in 2..Len(m_includedFiles) :
       /\ m_includedFiles[i].Name = MakeAbsoluteOrCurDirRelativeW(lastCall.arg)
       /\ lastCall.handle = IncludedFileIndexToHandle(i - 1)

(* C3 as claimed: with a resolver that returns bytes for every path, the    *)
(* first MaxIncludedFiles distinct unseen paths resolve and the next one    *)
(* fails with ERROR_OUT_OF_STRUCTURES, so that error is only ever seen once *)
(* MaxIncludedFiles includes have been registered after the primary source. *)
C3_Original ==
  /\ lastCall.err = "ERROR_OUT_OF_STRUCTURES" => Len(m_includedFiles) - 1 = MaxIncludedFiles
  /\ Len(m_includedFiles) - 1 <= MaxIncludedFiles

(* C3 amended: the primary source occupies one of the MaxIncludedFiles      *)
(* slots.  With a resolver that returns bytes for every path, an open or    *)
(* query of an unseen path registers it while fewer than                    *)
(* MaxIncludedFiles - 1 includes have been registered, and fails with       *)
(* ERROR_OUT_OF_STRUCTURES, leaving the registry as it is, once             *)
(* MaxIncludedFiles - 1 have: the failure comes on the MaxIncludedFiles-th  *)
(* distinct unseen path, never earlier and never later.                     *)
C3_CapacityBoundary ==
  [][ LET name == MakeAbsoluteOrCurDirRelativeW(lastCall'.arg)
          included == Len(m_includedFiles) - 1
      IN (IsOpenOrQuery(lastCall') /\ name \notin RegisteredNames) =>
           IF included < MaxIncludedFiles - 1
             THEN /\ lastCall'.err = "unset"
                  /\ m_includedFiles' = Append(m_includedFiles, m_includedFiles'[Len(m_includedFiles')])
                  /\ m_includedFiles'[Len(m_includedFiles')].Name = name
             ELSE /\ included = MaxIncludedFiles - 1
                  /\ lastCall'.err = "ERROR_OUT_OF_STRUCTURES"
                  /\ m_includedFiles' = m_includedFiles ]_vars

(* The registry is full and an unseen path has just been refused. *)
C3_Witness ==
  /\ lastCall.op = "CreateFileW"
  /\ lastCall.err = "ERROR_OUT_OF_STRUCTURES"
  /\ lastCall.handle = INVALID_HANDLE_VALUE
  /\ Len(m_includedFiles) = MaxIncludedFiles
  /\ MakeAbsoluteOrCurDirRelativeW(lastCall.arg) \notin RegisteredNames

-----------------------------------------------------------------------------
Normal(p) == MakeAbsoluteOrCurDirRelativeW(p)

(* C4: in every state, an open or attribute query of the primary source     *)
(* path yields the primary file (entry 0, attribute normal) and one of the  *)
(* registered output path yields the output (sentinel, attribute normal);   *)
(* neither is answered as a directory.  Where both paths coincide the       *)
(* output answer is accepted for either.                                    *)
C4_ExactPathPriority ==
  LET name == Normal(lastCall.arg)
      isOutput == m_pOutputStreamName # NullName /\ name = m_pOutputStreamName
  IN /\ (lastCall.op = "CreateFileW" /\ isOutput) => lastCall.handle = OutputHandle
     /\ (lastCall.op = "CreateFileW" /\ name = m_pSourceName /\ ~isOutput) =>
          lastCall.handle = IncludedFileIndexToHandle(0)
     /\ (lastCall.op = "GetFileAttributesW" /\ (isOutput \/ name = m_pSourceName)) =>
          lastCall.attr = "FILE_ATTRIBUTE_NORMAL"

(* C5: in every state and for every path, GetFileAttributesW reports a      *)
(* directory exactly when CreateFileW returns a directory handle, normal    *)
(* exactly when CreateFileW returns a file handle or the output sentinel,   *)
(* and fails exactly when CreateFileW fails, with the same error code.      *)
C5_SameClassification ==
  \A p \in InputPaths, ans \in LoaderAnswers :
    LET c == CreateFileWResult(p, ans)
        g == GetFileAttributesWResult(p, ans)
    IN /\ (g.attr = "FILE_ATTRIBUTE_DIRECTORY") <=> IsDirHandle(c.handle)
       /\ (g.attr = "FILE_ATTRIBUTE_NORMAL") <=>
            (IsFileKind(c.handle) \/ c.handle = OutputHandle)
       /\ (g.attr = "INVALID_FILE_ATTRIBUTES") <=> (c.handle = INVALID_HANDLE_VALUE)
       /\ g.err = c.err

(* The adapter as constructed: no include, output or search path registered *)
Fresh ==
  /\ Len(m_includedFiles) = 1
  /\ m_pOutputStreamName = NullName
  /\ m_searchEntries = <<>>

Unrooted(p) == ~IsAbsoluteOrCurDirRelativeW(p)

(* C6 as claimed: with the primary source constructed as ./P, open of the   *)
(* unrooted spelling P fails, and open of ./P returns the file handle of    *)
(* entry 0 whose size is the size of the primary source buffer (taken on    *)
(* the adapter as constructed).                                             *)
C6_Original ==
  (Fresh /\ lastCall.op = "CreateFileW") =>
    /\ (Unrooted(lastCall.arg) /\ <<".", "/">> \o lastCall.arg = m_pSourceName) =>
         lastCall.handle = INVALID_HANDLE_VALUE
    /\ lastCall.arg = m_pSourceName =>
         /\ lastCall.handle = IncludedFileIndexToHandle(0)
         /\ FileSizeByHandle(lastCall.handle) = m_pSource

(* C6 amended: open normalizes its path, so in every state open of the      *)
(* unrooted spelling P gives exactly the result of open of ./P; on the      *)
(* adapter as constructed with primary source ./P both succeed and return   *)
(* the file handle of entry 0, whose reported size is the size of the       *)
(* primary source buffer.                                                   *)
C6_UnrootedOpensPrimary ==
  /\ \A p \in InputPaths, ans \in LoaderAnswers :
       Unrooted(p) => CreateFileWResult(p, ans) = CreateFileWResult(<<".", "/">> \o p, ans)
  /\ (Fresh /\ lastCall.op = "CreateFileW"
        /\ lastCall.arg \in {m_pSourceName, SubSeq(m_pSourceName, 3, Len(m_pSourceName))}) =>
       /\ lastCall.handle = IncludedFileIndexToHandle(0)
       /\ IsFileKind(lastCall.handle) /\ GetFileIndex(lastCall.handle) = 0
       /\ FileSizeByHandle(lastCall.handle) = m_pSource

(* The unrooted spelling of the primary source ./a has just been opened on  *)
(* the adapter as constructed, and the open succeeded.                      *)
C6_Witness ==
  /\ Fresh
  /\ m_pSourceName = P_dot_a
  /\ lastCall.op = "CreateFileW"
  /\ lastCall.arg = P_a
  /\ lastCall.handle = IncludedFileIndexToHandle(0)

C8_HandleDenotesEntry ==
  (lastCall.op = "CreateFileW" /\ IsFileKind(lastCall.handle)) =>
    LET h == lastCall.handle
        name == Normal(lastCall.arg)
    IN /\ GetFileIndex(h) < Len(m_includedFiles)
       /\ HandleToIncludedFile(h).Name = name
       /\ \A i \in FindIncluded(name) :
            /\ GetStreamForHandle(h) = [stream |-> "BlobStream", index |-> i - 1]
            /\ FileSizeByHandle(h) = m_includedFiles[i].Size

(* C9: in every state the registry holds between 1 and MaxIncludedFiles     *)
(* entries and entry 0 is the primary source (its blob) under its           *)
(* normalized name; every step leaves the existing entries as they are, at  *)
(* their indexes, and at most appends one entry at the end.                 *)
C9_RegistryShape ==
  /\ 1 <= Len(m_includedFiles)
  /\ Len(m_includedFiles) <= MaxIncludedFiles
  /\ m_includedFiles[1] = [Name |-> m_pSourceName, Size |-> m_pSource]
  /\ IsAbsoluteOrCurDirRelativeW(m_includedFiles[1].Name)

C9_BoundedAppendOnly ==
  /\ [](C9_RegistryShape)
  /\ [][ /\ Len(m_includedFiles') \in {Len(m_includedFiles), Len(m_includedFiles) + 1}
         /\ SubSeq(m_includedFiles', 1, Len(m_includedFiles)) = m_includedFiles ]_vars

(* The registry has just received its last possible entry. *)
C9_Witness ==
  /\ Len(m_includedFiles) = MaxIncludedFiles
  /\ lastCall.load = m_includedFiles[MaxIncludedFiles].Name
  /\ m_includedFiles[1].Name = <<".", "/">> \o P_o

(* C10: once CreateFileW has returned a file handle for the primary source  *)
(* name, every later CreateFileW of that name that succeeds, after any      *)
(* opens and attribute queries of other paths, returns that same handle.    *)
C10_SameHandleAgain ==
  (/\ lastCall.op = "CreateFileW"
   /\ Normal(lastCall.arg) = m_pSourceName
   /\ lastCall.handle # INVALID_HANDLE_VALUE
   /\ sourceHandle # INVALID_HANDLE_VALUE) =>
    lastCall.handle = sourceHandle

-----------------------------------------------------------------------------
(* The path functions applied to every path of up to MaxPathLen characters  *)
(* over the characters they distinguish, and to the null path: the test of  *)
(* IsAbsoluteOrCurDirRelativeW, the normalization every facade call starts  *)
(* with, and the directory test of the normalized path against a registered *)
(* (hence normalized) file name.                                            *)
MaxPathLen == 3
PathChars == {".", "/", "\\", ":", "a"}
PathsUpTo(n) == UNION {[1..k -> PathChars] : k \in 0..n}

InitPath ==
  /\ Construct(P_dot_a, 1, TRUE, FALSE)
  /\ codec = NoCodec
  /\ \E d \in PathsUpTo(MaxPathLen) \cup {NullName}, g \in PathsUpTo(MaxPathLen) :
       pathTest = [NoPathTest EXCEPT !.d = d, !.f = MakeAbsoluteOrCurDirRelativeW(g),
                                     !.stage = "given"]
  /\ io = NoIO
  /\ runs = NoRuns

PathFrame ==
  UNCHANGED <<m_pSource, m_pSourceName, m_includedFiles, m_includeLoader, m_pOutputStreamName,
              m_pOutputStream, m_searchEntries, m_bDisplayIncludeProcess,
              m_pStdOutStream, m_pStdErrStream, dbg, aborted, lastCall, sourceHandle, codec, io, runs>>

Classify ==
  /\ pathTest.stage = "given"
  /\ pathTest' = [pathTest EXCEPT !.rooted = IsAbsoluteOrCurDirRelativeW(pathTest.d),
                                  !.stage = "classified"]
  /\ PathFrame

(* Appending a null string to PathStorage dereferences the null pointer. *)
Normalize ==
  /\ pathTest.stage = "classified"
  /\ pathTest' =
       IF pathTest.d = NullName THEN [pathTest EXCEPT !.stage = "crashed"]
       ELSE [pathTest EXCEPT
               !.norm = MakeAbsoluteOrCurDirRelativeW(pathTest.d),
               !.again = MakeAbsoluteOrCurDirRelativeW(MakeAbsoluteOrCurDirRelativeW(pathTest.d)),
               !.stage = "normalized"]
  /\ PathFrame

MatchDir ==
  /\ pathTest.stage = "normalized"
  /\ pathTest' = [pathTest EXCEPT
                    !.match = IsDirOf(pathTest.norm, Len(pathTest.norm), pathTest.f),
                    !.stage = "matched"]
  /\ PathFrame

NextPath == Classify \/ Normalize \/ MatchDir

SpecPath == InitPath /\ [][NextPath]_vars

(* C11: a queried path D (as normalized) matches a registered file path F   *)
(* as its directory exactly when D is a proper prefix of F and either the   *)
(* last character of D is a separator or the character of F right after the *)
(* prefix is one; ./a matches ./a/a and does not match ./aa.                *)
C11_SeparatorAligned ==
  pathTest.stage = "matched" =>
    LET D == pathTest.norm
        F == pathTest.f
    IN /\ pathTest.match <=>
            /\ Len(D) < Len(F)
            /\ SubSeq(F, 1, Len(D)) = D
            /\ IsSeparator(D[Len(D)]) \/ IsSeparator(F[Len(D) + 1])
       /\ (D = <<".", "/", "a">> /\ F = <<".", "/", "a", "/", "a">>) => pathTest.match
       /\ (D = <<".", "/", "a">> /\ F = <<".", "/", "a", "a">>) => ~pathTest.match

(* The directory ./a has been tested against the registered file ./a/a. *)
C11_Witness ==
  /\ pathTest.stage = "matched"
  /\ pathTest.d = <<"a">>
  /\ pathTest.f = <<".", "/", "a", "/", "a">>
  /\ pathTest.match

-----------------------------------------------------------------------------
(* The adapter, with or without a resolver, driven with the generated       *)
(* include names and a resolver that may fail, find nothing, or return      *)
(* bytes.                                                                   *)
InitResolve ==
  /\ \E h \in BOOLEAN : Construct(P_dot_a, 1, h, FALSE)
  /\ codec = NoCodec
  /\ pathTest = NoPathTest
  /\ io = NoIO
  /\ runs = NoRuns

NextResolve ==
  \/ \E p \in FillPaths, ans \in LoaderAnswers : CreateFileW(p, ans)
  \/ \E p \in FillPaths, ans \in LoaderAnswers : GetFileAttributesW(p, ans)

SpecResolve == InitResolve /\ [][NextResolve]_vars

(* C12: for a path that is not in the registry, resolve gives               *)
(* ERROR_NOT_FOUND when no resolver is configured; ERROR_OUT_OF_STRUCTURES, *)
(* without a LoadSource call, when a resolver is configured and the         *)
(* registry is full; ERROR_UNHANDLED_EXCEPTION when LoadSource fails;       *)
(* ERROR_NOT_FOUND when LoadSource returns nothing.  Every open or query    *)
(* that fails leaves the registry as it was.                                *)
C12_Outcomes ==
  \A p \in FillPaths, ans \in LoaderAnswers :
    LET name == Normal(p)
        r == TryFindOrOpen(name, ans)
        full == Len(m_includedFiles) = MaxIncludedFiles
    IN name \notin RegisteredNames =>
         /\ ~m_includeLoader =>
              r.err = "ERROR_NOT_FOUND" /\ ~r.loaded /\ r.files = m_includedFiles
         /\ (m_includeLoader /\ full) =>
              r.err = "ERROR_OUT_OF_STRUCTURES" /\ ~r.loaded /\ r.files = m_includedFiles
         /\ (m_includeLoader /\ ~full /\ ans.kind = "fail") =>
              r.err = "ERROR_UNHANDLED_EXCEPTION" /\ r.loaded /\ r.files = m_includedFiles
         /\ (m_includeLoader /\ ~full /\ ans.kind = "none") =>
              r.err = "ERROR_NOT_FOUND" /\ r.loaded /\ r.files = m_includedFiles

C12_ResolveErrors ==
  /\ [](C12_Outcomes)
  /\ [][ (IsOpenOrQuery(lastCall') /\ lastCall'.err # "unset") =>
           /\ m_includedFiles' = m_includedFiles
           /\ lastCall'.err \in {"ERROR_NOT_FOUND", "ERROR_OUT_OF_STRUCTURES",
                                 "ERROR_UNHANDLED_EXCEPTION"}
           /\ ~m_includeLoader => lastCall'.err = "ERROR_NOT_FOUND"
           /\ lastCall'.err = "ERROR_OUT_OF_STRUCTURES" =>
                /\ lastCall'.load = NullName
                /\ Len(m_includedFiles) = MaxIncludedFiles ]_vars

(* The registry is full and an attribute query of an unseen path has just   *)
(* been refused without a LoadSource call.                                  *)
C12_Witness ==
  /\ lastCall.op = "GetFileAttributesW"
  /\ lastCall.err = "ERROR_OUT_OF_STRUCTURES"
  /\ lastCall.load = NullName
  /\ Len(m_includedFiles) = MaxIncludedFiles
  /\ Normal(lastCall.arg) \notin RegisteredNames

-----------------------------------------------------------------------------
(* Operations that are not supported.  ret is the value returned: FALSE and *)
(* nullptr are 0, INVALID_HANDLE_VALUE is -1.                               *)
FALSE_ == 0
TRUE_ == 1

IOFrame ==
  UNCHANGED <<m_pSource, m_pSourceName, m_includedFiles, m_includeLoader, m_pOutputStreamName,
              m_pOutputStream, m_searchEntries, m_bDisplayIncludeProcess, dbg, sourceHandle,
              codec, pathTest, runs>>

NotCapable(op, arg, ret) ==
  /\ ~aborted
  /\ lastCall' = [Plain(op, arg) EXCEPT !.err = "ERROR_NOT_CAPABLE", !.ret = ret]
  /\ UNCHANGED <<m_pStdOutStream, m_pStdErrStream, aborted, io>>
  /\ IOFrame

NotCapableOn(op, h, ret) ==
  /\ ~aborted
  /\ lastCall' = [NoCall EXCEPT !.op = op, !.handle = h, !.err = "ERROR_NOT_CAPABLE", !.ret = ret]
  /\ UNCHANGED <<m_pStdOutStream, m_pStdErrStream, aborted, io>>
  /\ IOFrame

DeleteFileW(lpFileName) == NotCapable("DeleteFileW", lpFileName, FALSE_)
RemoveDirectoryW(lpFileName) == NotCapable("RemoveDirectoryW", lpFileName, FALSE_)
CreateDirectoryW(lpPathName) == NotCapable("CreateDirectoryW", lpPathName, FALSE_)
CreateHardLinkW(lpFileName) == NotCapable("CreateHardLinkW", lpFileName, FALSE_)
MoveFileExW(lpExistingFileName) == NotCapable("MoveFileExW", lpExistingFileName, FALSE_)
CreateSymbolicLinkW(lpSymlinkFileName) ==
  NotCapable("CreateSymbolicLinkW", lpSymlinkFileName, FALSE_)
SetFileTime(hFile) == NotCapableOn("SetFileTime", hFile, FALSE_)
CreateFileMappingW(hFile) == NotCapableOn("CreateFileMappingW", hFile, INVALID_HANDLE_VALUE)
MapViewOfFile(hFileMappingObject) == NotCapableOn("MapViewOfFile", hFileMappingObject, 0)
UnmapViewOfFile(lpBaseAddress) == NotCapableOn("UnmapViewOfFile", lpBaseAddress, FALSE_)

(* resize_file returns 0 and sets no error *)
resize_file(path) ==
  /\ ~aborted
  /\ lastCall' = Plain("resize_file", path)
  /\ UNCHANGED <<m_pStdOutStream, m_pStdErrStream, aborted, io>>
  /\ IOFrame

CloseHandle(hObject) ==
  /\ ~aborted
  /\ lastCall' = IF IsKnownHandle(hObject)
                   THEN [NoCall EXCEPT !.op = "CloseHandle", !.handle = hObject, !.ret = TRUE_]
                   ELSE [NoCall EXCEPT !.op = "CloseHandle", !.handle = hObject,
                                       !.ret = FALSE_, !.err = "ERROR_INVALID_HANDLE"]
  /\ UNCHANGED <<m_pStdOutStream, m_pStdErrStream, aborted, io>>
  /\ IOFrame

-----------------------------------------------------------------------------
(* CRT layer: descriptors and the streams behind them.  A buffered sink is  *)
(* a sequence of chunks <<buffer, count>>, one per write, in write order.   *)
STDOUT_FILENO == 1
STDERR_FILENO == 2

MaxChunks == 2
MaxDrains == 2

HandleFromFD(fd) ==
  IF fd = STDOUT_FILENO THEN StdOutHandle
  ELSE IF fd = STDERR_FILENO THEN StdErrHandle
  ELSE fd

(* GetStreamForFD: which stream *ppResult is.  "null" is a null pointer;    *)
(* "outofrange" is HandleToIncludedFile indexing past the end of the        *)
(* registry.                                                                *)
GetStreamForFD(fd) ==
  LET sel == GetStreamForHandle(HandleFromFD(fd))
  IN IF sel.stream = "output"
       THEN IF m_pOutputStream = NullStream THEN "null" ELSE "output"
     ELSE IF sel.stream = "stdout"
       THEN IF m_pStdOutStream = NullStream THEN "null" ELSE "stdout"
     ELSE IF sel.stream = "stderr"
       THEN IF m_pStdErrStream = NullStream THEN "null" ELSE "stderr"
     ELSE IF sel.stream = "BlobStream"
       THEN IF sel.index < Len(m_includedFiles) THEN "blob" ELSE "outofrange"
     ELSE "null"

(* What indexing past the end of the registry can do: DXASSERT stops a DBG  *)
(* build; otherwise the stray slot may hold a null pointer, a pointer whose *)
(* use faults, or a pointer to some object whose method then runs.          *)
StrayOutcomes == {"null", "fault", "stray"}

OnHandle(op, h) == [NoCall EXCEPT !.op = op, !.handle = h]

BadDescriptor(op, fd) == [OnHandle(op, fd) EXCEPT !.err = "EBADF", !.ret = 0 - 1]

(* The part of a CRT call up to the test of the stream pointer: the call    *)
(* record when the call ends there, NoCall when it goes on to the stream.   *)
EndsBeforeStream(op, fd, ub) ==
  LET which == GetStreamForFD(fd)
  IN IF which = "null" THEN BadDescriptor(op, fd)
     ELSE IF which = "outofrange"
       THEN IF dbg \/ ub = "fault" THEN [OnHandle("abort", fd) EXCEPT !.err = "outofrange"]
            ELSE IF ub = "null" THEN BadDescriptor(op, fd)
            ELSE [OnHandle(op, fd) EXCEPT !.err = "stray"]
     ELSE NoCall

(* What the stream behind the descriptor answers: its HRESULT and the count *)
(* or offset it reports.                                                    *)
StreamAnswers == [hr : {"S_OK", "E_FAIL"}, n : {1}]

(* The sink after a write of count bytes from buffer *)
Buffered(sink, buffer, count) == Append(sink, <<buffer, count>>)

Read(fd, count, st, ub) ==
  /\ ~aborted
  /\ \E early \in {EndsBeforeStream("Read", fd, ub)} :
       IF early # NoCall
         THEN /\ lastCall' = early
              /\ aborted' = (early.op = "abort")
         ELSE /\ lastCall' = IF st.hr # "S_OK"
                               THEN [OnHandle("Read", fd) EXCEPT !.err = "EIO", !.ret = 0 - 1]
                               ELSE [OnHandle("Read", fd) EXCEPT !.ret = st.n]
              /\ UNCHANGED aborted
  /\ UNCHANGED <<m_pStdOutStream, m_pStdErrStream, io>>
  /\ IOFrame

lseek(fd, offset, origin, st, ub) ==
  /\ ~aborted
  /\ \E early \in {EndsBeforeStream("lseek", fd, ub)} :
       IF early # NoCall
         THEN /\ lastCall' = early
              /\ aborted' = (early.op = "abort")
         ELSE /\ lastCall' = IF st.hr # "S_OK"
                               THEN [OnHandle("lseek", fd) EXCEPT !.err = "EINVAL", !.ret = 0 - 1]
                               ELSE [OnHandle("lseek", fd) EXCEPT !.ret = st.n]
              /\ UNCHANGED aborted
  /\ UNCHANGED <<m_pStdOutStream, m_pStdErrStream, io>>
  /\ IOFrame

(* A blob stream is read-only: its Write fails.  A sink takes the bytes     *)
(* when its Write succeeds.                                                 *)
Write(fd, buffer, count, st, ub) ==
  /\ ~aborted
  /\ \E early \in {EndsBeforeStream("Write", fd, ub)}, which \in {GetStreamForFD(fd)} :
       IF early # NoCall
         THEN /\ lastCall' = early
              /\ aborted' = (early.op = "abort")
              /\ UNCHANGED <<m_pStdOutStream, m_pStdErrStream, io>>
       ELSE IF st.hr # "S_OK" \/ which = "blob"
         THEN /\ lastCall' = [OnHandle("Write", fd) EXCEPT !.err = "EIO", !.ret = 0 - 1]
              /\ UNCHANGED <<aborted, m_pStdOutStream, m_pStdErrStream, io>>
       ELSE /\ lastCall' = [OnHandle("Write", fd) EXCEPT !.ret = count]
            /\ UNCHANGED aborted
            /\ IF which = "stdout"
                 THEN /\ Len(m_pStdOutStream) < MaxChunks - 1
                      /\ m_pStdOutStream' = Buffered(m_pStdOutStream, buffer, count)
                      /\ UNCHANGED <<m_pStdErrStream, io>>
               ELSE IF which = "stderr"
                 THEN /\ Len(m_pStdErrStream) < MaxChunks
                      /\ m_pStdErrStream' = Buffered(m_pStdErrStream, buffer, count)
                      /\ UNCHANGED <<m_pStdOutStream, io>>
               ELSE /\ Len(io.out[m_pOutputStream]) < MaxChunks - 1
                    /\ io' = [io EXCEPT !.out[m_pOutputStream] =
                                          Buffered(io.out[m_pOutputStream], buffer, count)]
                    /\ UNCHANGED <<m_pStdOutStream, m_pStdErrStream>>
  /\ IOFrame

(* WriteStdErrToStream hands the whole buffer of the standard-error stream  *)
(* to s and leaves the stream as it is; with no stream created it           *)
(* dereferences a null pointer.  drains counts the calls, repeat tells that *)
(* the buffer is what the call before already delivered.                    *)
WriteStdErrToStream ==
  /\ ~aborted
  /\ io.drains < MaxDrains
  /\ IF m_pStdErrStream = NullStream
       THEN /\ aborted' = TRUE
            /\ lastCall' = Plain("abort", NullName)
            /\ UNCHANGED io
       ELSE /\ io' = [io EXCEPT !.drained = m_pStdErrStream,
                                !.drains = io.drains + 1,
                                !.repeat = (io.drains >= 1 /\ io.drained = m_pStdErrStream)]
            /\ lastCall' = Plain("WriteStdErrToStream", NullName)
            /\ UNCHANGED aborted
  /\ UNCHANGED <<m_pStdOutStream, m_pStdErrStream>>
  /\ IOFrame

-----------------------------------------------------------------------------
(* The adapter with its descriptor layer: opens, the output registration,   *)
(* the standard streams, the unsupported operations, CloseHandle, and       *)
(* Read / Write / lseek / WriteStdErrToStream over the handle values of     *)
(* every kind, issued or not.                                               *)
IOPaths == {P_dot_a_b}
IOAnswers == {[kind |-> "blob", size |-> MaxBlobSize + 1]}
IORegs == {[name |-> P_o, sink |-> <<"sinkA">>]}
IOHandles ==
  {UnknownHandle, StdOutHandle, StdErrHandle, OutputHandle,
   IncludedFileIndexToHandle(0), IncludedFileIndexToHandle(1),
   DxcArgsHandle3(HK_FileDir, 1, 3), INVALID_HANDLE_VALUE}
WriteBuffers == <<(<<"x">>), (<<"y">>)>>

(* The stream answers and stray outcomes that make a difference for fd *)
AnswersFor(fd) ==
  IF GetStreamForFD(fd) \in {"null", "outofrange"}
    THEN {[hr |-> "S_OK", n |-> 1]} ELSE StreamAnswers
StraysFor(fd) ==
  IF GetStreamForFD(fd) = "outofrange" THEN StrayOutcomes ELSE {"null"}
(* Successive writes to the standard-error stream carry different bytes *)
BuffersFor(fd) ==
  IF GetStreamForFD(fd) = "stderr"
    THEN {WriteBuffers[(Len(m_pStdErrStream) % Len(WriteBuffers)) + 1]}
    ELSE {WriteBuffers[1]}

InitIO ==
  /\ \E b \in BOOLEAN : Construct(P_dot_a, 1, TRUE, b)
  /\ codec = NoCodec
  /\ pathTest = NoPathTest
  /\ io = NoIO
  /\ runs = NoRuns

NextIO ==
  \/ \E p \in IOPaths, ans \in IOAnswers : CreateFileW(p, ans)
  \/ \E reg \in IORegs : RegisterOutputStream(reg.name, reg.sink)
  \/ \E ok \in BOOLEAN : CreateStdStreams(ok)
  \/ \E p \in IOPaths : DeleteFileW(p)
  \/ \E p \in IOPaths : RemoveDirectoryW(p)
  \/ \E p \in IOPaths : CreateDirectoryW(p)
  \/ \E p \in IOPaths : CreateHardLinkW(p)
  \/ \E p \in IOPaths : MoveFileExW(p)
  \/ \E p \in IOPaths : CreateSymbolicLinkW(p)
  \/ \E p \in IOPaths : resize_file(p)
  \/ \E h \in {OutputHandle} : SetFileTime(h)
  \/ \E h \in {IncludedFileIndexToHandle(0)} : CreateFileMappingW(h)
  \/ \E h \in {UnknownHandle} : MapViewOfFile(h)
  \/ \E h \in {UnknownHandle} : UnmapViewOfFile(h)
  \/ \E h \in IOHandles : CloseHandle(h)
  \/ \E fd \in IOHandles : \E st \in AnswersFor(fd), ub \in StraysFor(fd) : Read(fd, 1, st, ub)
  \/ \E fd \in IOHandles : \E st \in AnswersFor(fd), ub \in StraysFor(fd) :
       lseek(fd, 0, "SEEK_SET", st, ub)
  \/ \E fd \in IOHandles :
       \E b \in BuffersFor(fd), st \in AnswersFor(fd), ub \in StraysFor(fd) :
         Write(fd, b, Len(b), st, ub)
  \/ WriteStdErrToStream

SpecIO == InitIO /\ [][NextIO]_vars

-----------------------------------------------------------------------------
MutatingOps ==
  {"DeleteFileW", "MoveFileExW", "CreateDirectoryW", "RemoveDirectoryW", "CreateHardLinkW",
   "CreateSymbolicLinkW", "SetFileTime", "resize_file", "CreateFileMappingW", "MapViewOfFile",
   "UnmapViewOfFile"}

(* C13: every mutating operation (delete, move, create or remove directory, *)
(* hard or symbolic link, set-time, resize, create / map / unmap file       *)
(* mapping) fails with ERROR_NOT_CAPABLE in every state and for every       *)
(* argument, and leaves the registry, the search paths, the output          *)
(* registration and the streams as they are.                                *)
C13_MutatorsNotCapable ==
  /\ [](lastCall.op \in MutatingOps => lastCall.err = "ERROR_NOT_CAPABLE")
  /\ [][ lastCall'.op \in MutatingOps =>
           UNCHANGED <<m_includedFiles, m_searchEntries, m_pOutputStreamName, m_pOutputStream,
                       m_pStdOutStream, m_pStdErrStream, io>> ]_vars

(* C14 as claimed: CloseHandle succeeds for the standard and output         *)
(* sentinels and for the file handles of the registry's entries, and fails  *)
(* with ERROR_INVALID_HANDLE for the unresolved handle and for handle       *)
(* values that were never issued: the failure value of open and file        *)
(* handles whose index no entry has.                                        *)
C14_Original ==
  lastCall.op = "CloseHandle" =>
    LET h == lastCall.handle
    IN /\ (\/ h \in {StdOutHandle, StdErrHandle, OutputHandle}
           \/ IsFileKind(h) /\ GetFileIndex(h) < Len(m_includedFiles)) =>
            lastCall.ret = TRUE_
       /\ (\/ h = UnknownHandle
           \/ h = INVALID_HANDLE_VALUE
           \/ IsFileKind(h) /\ GetFileIndex(h) >= Len(m_includedFiles)) =>
            lastCall.ret = FALSE_ /\ lastCall.err = "ERROR_INVALID_HANDLE"

(* C14 amended: CloseHandle fails, with ERROR_INVALID_HANDLE, for the       *)
(* unresolved handle only; for every other handle value, whether open       *)
(* issued it or not, it returns success and sets no error.  Either way it   *)
(* changes no state, and the handle selects the same stream afterwards.     *)
C14_CloseHandle ==
  /\ [](lastCall.op = "CloseHandle" =>
          IF lastCall.handle = UnknownHandle
            THEN lastCall.ret = FALSE_ /\ lastCall.err = "ERROR_INVALID_HANDLE"
            ELSE lastCall.ret = TRUE_ /\ lastCall.err = "unset")
  /\ [][ lastCall'.op = "CloseHandle" =>
           /\ UNCHANGED <<m_includedFiles, m_searchEntries, m_pOutputStreamName,
                          m_pOutputStream, m_pStdOutStream, m_pStdErrStream, io, aborted>>
           /\ \A h \in IOHandles :
                lastCall'.handle = h => GetStreamForFD(h)' = GetStreamForFD(h) ]_vars

(* The file handle open returned for the include ./a/b has been closed. *)
C14_Witness ==
  /\ lastCall.op = "CloseHandle"
  /\ lastCall.handle = IncludedFileIndexToHandle(1)
  /\ Len(m_includedFiles) = 2
  /\ m_includedFiles[2].Name = P_dot_a_b
  /\ lastCall.ret = TRUE_

CrtOps == {"Read", "Write", "lseek"}

(* C15: Read, Write and lseek act only when the descriptor maps to the      *)
(* standard-output sink, the standard-error sink, the registered output     *)
(* sink or the stream of a live registry entry; for every other descriptor  *)
(* (directory handles, the unresolved handle, the output descriptor with no *)
(* output registered, standard descriptors with no standard streams,        *)
(* file-kind descriptors whose index is not below the registry size) they   *)
(* return -1 with EBADF and change no stream or registry state.             *)
C15_BadDescriptor ==
  [][ \A fd \in IOHandles :
        (/\ lastCall'.handle = fd
         /\ lastCall'.op \in CrtOps \/ (lastCall'.op = "abort" /\ lastCall'.err = "outofrange")) =>
          IF GetStreamForFD(fd) \in {"stdout", "stderr", "output", "blob"}
            THEN lastCall'.op \in CrtOps /\ lastCall'.err # "EBADF"
            ELSE /\ lastCall'.op \in CrtOps
                 /\ lastCall'.ret = 0 - 1
                 /\ lastCall'.err = "EBADF"
                 /\ UNCHANGED <<m_includedFiles, m_pStdOutStream, m_pStdErrStream,
                                m_pOutputStream, io, aborted>> ]_vars

(* The same with the file-kind descriptors whose index is not below the     *)
(* registry size left aside.                                                *)
C15_ExceptOutOfRange ==
  [][ \A fd \in IOHandles :
        (/\ lastCall'.handle = fd
         /\ lastCall'.op \in CrtOps
         /\ GetStreamForFD(fd) # "outofrange") =>
          IF GetStreamForFD(fd) \in {"stdout", "stderr", "output", "blob"}
            THEN lastCall'.err # "EBADF"
            ELSE /\ lastCall'.ret = 0 - 1
                 /\ lastCall'.err = "EBADF"
                 /\ UNCHANGED <<m_includedFiles, m_pStdOutStream, m_pStdErrStream,
                                m_pOutputStream, io, aborted>> ]_vars

(* C16: after writes to the standard-error descriptor, a drain              *)
(* (WriteStdErrToStream) delivers exactly the bytes written, in write       *)
(* order; a second drain with no write in between delivers nothing: it does *)
(* not deliver the same bytes again.                                        *)
C16_StdErrDrain ==
  lastCall.op = "WriteStdErrToStream" =>
    /\ io.drained = m_pStdErrStream
    /\ io.repeat => io.drained = <<>>

(* The first half of C16 alone: what a drain delivers is what was written,  *)
(* chunk by chunk in write order.                                           *)
C16_DeliversWrites ==
  lastCall.op = "WriteStdErrToStream" =>
    /\ io.drained = m_pStdErrStream
    /\ \A i \in 1..Len(io.drained) :
         io.drained[i] = <<WriteBuffers[((i - 1) % Len(WriteBuffers)) + 1], 1>>

(* C17: for every path P that is not rooted, the empty path and the paths   *)
(* beginning with .. included, normalize(P) is ./ followed by P; and        *)
(* normalize(normalize(P)) = normalize(P) for every path P, rooted or not.  *)
C17_NormalizeIdempotent ==
  pathTest.stage \in {"normalized", "matched"} =>
    /\ ~pathTest.rooted => pathTest.norm = <<".", "/">> \o pathTest.d
    /\ pathTest.rooted => pathTest.norm = pathTest.d
    /\ pathTest.again = pathTest.norm

(* The path .. has been normalized to ./.. *)
C17_Witness ==
  /\ pathTest.stage = "normalized"
  /\ pathTest.d = <<".", ".">>
  /\ ~pathTest.rooted
  /\ pathTest.norm = <<".", "/", ".", ".">>

StartsWith(P, pre) == Len(P) >= Len(pre) /\ SubSeq(P, 1, Len(pre)) = pre

(* C18 as stated: isRooted(P) is true exactly when P starts with ./ , or is *)
(* exactly . , or has a disk designator followed by a separator (either     *)
(* separator character), or starts with a double separator (either          *)
(* separator character); false for every other path, the empty and the null *)
(* path included.                                                           *)
C18_Original ==
  pathTest.stage # "given" =>
    LET P == pathTest.d
    IN pathTest.rooted <=>
         /\ P # NullName
         /\ \/ StartsWith(P, <<".", "/">>)
            \/ P = <<".">>
            \/ Len(P) >= 3 /\ P[1] # "." /\ P[2] = ":" /\ IsSeparator(P[3])
            \/ Len(P) >= 2 /\ IsSeparator(P[1]) /\ IsSeparator(P[2])

(* C18 amended: isRooted(P) is true exactly when P is . alone or starts     *)
(* with ./ or with .\ ; or P does not start with . and its second character *)
(* is : and its third a backslash; or P starts with two backslashes.  It is *)
(* false for every other path: the empty and the null path, a disk          *)
(* designator followed by a forward slash, and a doubled prefix with a      *)
(* forward slash in it.                                                     *)
C18_RootedClassification ==
  pathTest.stage # "given" =>
    LET P == pathTest.d
    IN /\ pathTest.rooted <=>
            /\ P # NullName
            /\ \/ P = <<".">>
               \/ StartsWith(P, <<".", "/">>)
               \/ StartsWith(P, <<".", "\\">>)
               \/ Len(P) >= 3 /\ P[1] # "." /\ P[2] = ":" /\ P[3] = "\\"
               \/ StartsWith(P, <<"\\", "\\">>)
       /\ P \in {<<>>, NullName, <<"a", ":", "/">>, <<"/", "/">>, <<"\\", "/">>, <<"/", "\\">>}
            => ~pathTest.rooted

(* The path a:/ has been classified, and is not rooted. *)
C18_Witness ==
  /\ pathTest.stage = "classified"
  /\ pathTest.d = <<"a", ":", "/">>
  /\ ~pathTest.rooted

AlignedPrefix(D, F) ==
  /\ Len(D) < Len(F)
  /\ SubSeq(F, 1, Len(D)) = D
  /\ IsSeparator(D[Len(D)]) \/ IsSeparator(F[Len(D) + 1])

DirQueries ==
  {MakeAbsoluteOrCurDirRelativeW(p) : p \in InputPaths} \cup DirProbes \cup {<<".", "/">>}

(* C19: findDirectory(D) returns a FileDir handle carrying the smallest     *)
(* registry index whose path has D as a separator-aligned proper prefix if  *)
(* there is such an entry; otherwise a SearchDir handle carrying the        *)
(* smallest search-path index that equals D or has D as a separator-aligned *)
(* proper prefix; otherwise no match; in both match cases the handle's      *)
(* length field is the length of D.                                         *)
C19_FirstMatch ==
  \A D \in DirQueries :
    LET h == TryFindDirHandle(D)
        files == {i \in 1..Len(m_includedFiles) : AlignedPrefix(D, m_includedFiles[i].Name)}
        search == {i \in 1..Len(m_searchEntries) :
                     m_searchEntries[i] = D \/ AlignedPrefix(D, m_searchEntries[i])}
    IN IF files # {}
         THEN /\ GetKind(h) = HK_FileDir
              /\ GetFileIndex(h) + 1 \in files
              /\ \A j \in files : GetFileIndex(h) + 1 <= j
              /\ Length(h) = Len(D)
       ELSE IF search # {}
         THEN /\ GetKind(h) = HK_SearchDir
              /\ GetFileIndex(h) + 1 \in search
              /\ \A j \in search : GetFileIndex(h) + 1 <= j
              /\ Length(h) = Len(D)
       ELSE h = INVALID_HANDLE_VALUE

AnsweredAsDirectory(call) ==
  \/ call.op = "CreateFileW" /\ IsDirHandle(call.handle)
  \/ call.op = "GetFileAttributesW" /\ call.attr = "FILE_ATTRIBUTE_DIRECTORY"

(* C20: whenever open or queryAttributes answers a path as a directory, the *)
(* resolver is not invoked and the registry, the search-path list, the      *)
(* output registration and all streams are unchanged.                       *)
C20_DirectoryAnswersNoState ==
  [][ AnsweredAsDirectory(lastCall') =>
        /\ lastCall'.load = NullName
        /\ UNCHANGED <<m_includedFiles, m_searchEntries, m_pOutputStreamName, m_pOutputStream,
                       m_pStdOutStream, m_pStdErrStream, io>> ]_vars

(* With a resolver configured and include tracing on, ./a has been opened   *)
(* and answered as the directory of the registered include ./a/b.           *)
C20_Witness ==
  /\ lastCall.op = "CreateFileW"
  /\ lastCall.arg = P_dot_a
  /\ GetKind(lastCall.handle) = HK_FileDir
  /\ m_includeLoader
  /\ m_bDisplayIncludeProcess
  /\ m_pStdErrStream # NullStream
  /\ \E i \in 1..Len(m_includedFiles) : m_includedFiles[i].Name = P_dot_a_b

(* C21: in every reachable state there is at most one registered (path,     *)
(* sink) output pair; a RegisterOutputStream call made when an output is    *)
(* already registered is fatal: it does not return success and leaves the   *)
(* first registration's path and sink in place.                             *)
C21_OneOutputRegistration ==
  /\ []((m_pOutputStream = NullStream) <=> (m_pOutputStreamName = NullName))
  /\ [][ m_pOutputStream # NullStream =>
           /\ UNCHANGED <<m_pOutputStream, m_pOutputStreamName>>
           /\ lastCall'.op # "RegisterOutputStream" ]_vars

(* The same of the builds that define DBG, where DXASSERT is compiled in.   *)
C21_DebugBuild ==
  /\ []((m_pOutputStream = NullStream) <=> (m_pOutputStreamName = NullName))
  /\ [][ (dbg /\ m_pOutputStream # NullStream) =>
           /\ UNCHANGED <<m_pOutputStream, m_pOutputStreamName>>
           /\ lastCall'.op # "RegisterOutputStream" ]_vars

(* C22: SetupForCompilerInstance with more than MaxIncludedFiles entries    *)
(* fails with OutOfCapacity and leaves the search-path list empty; with at  *)
(* most that many it stores every entry in normalized (rooted) form in the  *)
(* given order; after the first setup call no operation, a further setup    *)
(* call included, changes the list, so its size never exceeds the bound.    *)
C22_SearchListSetOnce ==
  /\ [](/\ Len(m_searchEntries) <= MaxIncludedFiles
        /\ \A i \in 1..Len(m_searchEntries) : IsAbsoluteOrCurDirRelative(m_searchEntries[i])
        /\ (lastCall.op = "SetupForCompilerInstance" /\ lastCall.err = "ERROR_OUT_OF_STRUCTURES")
             => m_searchEntries = <<>>)
  /\ [][ (lastCall'.op = "SetupForCompilerInstance" /\ lastCall'.err = "unset"
          /\ m_searchEntries = <<>>) =>
           \E l \in SearchLists :
             m_searchEntries' = [i \in 1..Len(l) |-> SearchEntryFor(l[i])] ]_vars
  /\ [][ (m_searchEntries # <<>> \/ lastCall.op = "SetupForCompilerInstance") =>
           UNCHANGED m_searchEntries ]_vars

(* The same of the builds that define DBG.                                  *)
C22_DebugBuild ==
  /\ [](/\ Len(m_searchEntries) <= MaxIncludedFiles
        /\ \A i \in 1..Len(m_searchEntries) : IsAbsoluteOrCurDirRelative(m_searchEntries[i]))
  /\ [][ (dbg /\ (m_searchEntries # <<>> \/ lastCall.op = "SetupForCompilerInstance")) =>
           UNCHANGED m_searchEntries ]_vars

-----------------------------------------------------------------------------
(* Two runs of one sequence of calls: an adapter is constructed and used    *)
(* with include tracing off while every call and what it returned is        *)
(* written down; a second adapter is constructed from the same arguments,   *)
(* EnableDisplayIncludeProcess is called on it, and the calls written down  *)
(* are made again in order, the resolver answering as it did.               *)
MaxCalls == 3
TracePaths == {P_dot_a_b}

CallInput(op, arg, ans, ok) == [op |-> op, arg |-> arg, ans |-> ans, ok |-> ok]

NoAnswer == [kind |-> "none", size |-> 0]

(* The call made in this step and the state it leaves, added to the script *)
Recorded(in) ==
  Append(runs.script, [in |-> in, call |-> lastCall', files |-> m_includedFiles',
                       aborted |-> aborted', std |-> m_pStdErrStream' # NullStream])

InitTrace ==
  /\ \E b \in BOOLEAN : Construct(P_dot_a, 1, TRUE, b)
  /\ codec = NoCodec
  /\ pathTest = NoPathTest
  /\ io = NoIO
  /\ runs = [NoRuns EXCEPT !.phase = "untraced"]

UntracedCall ==
  /\ runs.phase = "untraced"
  /\ Len(runs.script) < MaxCalls
  /\ \/ \E p \in TracePaths, ans \in LoaderAnswers :
          /\ CreateFileWCall(p, ans)
          /\ runs' = [runs EXCEPT !.script = Recorded(CallInput("CreateFileW", p, ans, TRUE))]
     \/ \E p \in TracePaths, ans \in LoaderAnswers :
          /\ GetFileAttributesWCall(p, ans)
          /\ runs' = [runs EXCEPT
                        !.script = Recorded(CallInput("GetFileAttributesW", p, ans, TRUE))]
     \/ \E ok \in BOOLEAN :
          /\ CreateStdStreamsCall(ok)
          /\ runs' = [runs EXCEPT
                        !.script = Recorded(CallInput("CreateStdStreams", NullName, NoAnswer, ok))]

(* The constructor again, with the arguments of the first adapter *)
Restart ==
  /\ runs.phase = "untraced"
  /\ runs.script # <<>>
  /\ runs' = [runs EXCEPT !.phase = "fresh"]
  /\ m_includedFiles' = <<[Name |-> m_pSourceName, Size |-> m_pSource]>>
  /\ m_bDisplayIncludeProcess' = FALSE
  /\ m_pOutputStreamName' = NullName
  /\ m_pOutputStream' = NullStream
  /\ m_searchEntries' = <<>>
  /\ m_pStdOutStream' = NullStream
  /\ m_pStdErrStream' = NullStream
  /\ aborted' = FALSE
  /\ lastCall' = NoCall
  /\ sourceHandle' = INVALID_HANDLE_VALUE
  /\ UNCHANGED <<m_pSource, m_pSourceName, m_includeLoader, dbg, codec, pathTest, io>>

EnableTracing ==
  /\ runs.phase = "fresh"
  /\ EnableDisplayIncludeProcessCall
  /\ runs' = [runs EXCEPT !.phase = "traced"]

TracedCall ==
  /\ runs.phase = "traced"
  /\ runs.pos < Len(runs.script)
  /\ runs' = [runs EXCEPT !.pos = runs.pos + 1]
  /\ \E in \in {runs.script[runs.pos + 1].in} :
       \/ in.op = "CreateFileW" /\ CreateFileWCall(in.arg, in.ans)
       \/ in.op = "GetFileAttributesW" /\ GetFileAttributesWCall(in.arg, in.ans)
       \/ in.op = "CreateStdStreams" /\ CreateStdStreamsCall(in.ok)

NextTrace == UntracedCall \/ Restart \/ EnableTracing \/ TracedCall

SpecTrace == InitTrace /\ [][NextTrace]_vars

(* C23: for every sequence of operations, the run with include tracing      *)
(* enabled and the run with it disabled yield the same return values and    *)
(* error codes, the same registry contents and indices and the same         *)
(* resolver invocations; they differ only in the bytes accumulated in the   *)
(* standard-error sink, where one trace line is added per newly appended    *)
(* entry.                                                                   *)
C23_TracingInert ==
  /\ []((runs.phase = "traced" /\ runs.pos >= 1) =>
          LET e == runs.script[runs.pos]
          IN /\ lastCall = e.call
             /\ m_includedFiles = e.files
             /\ aborted = e.aborted
             /\ (m_pStdErrStream # NullStream) = e.std)
  /\ [][ (runs.phase = "traced" /\ runs'.phase = "traced" /\ m_pStdErrStream' # m_pStdErrStream) =>
           \/ m_pStdErrStream = NullStream \/ m_pStdErrStream' = NullStream
           \/ lastCall'.op = "CreateStdStreams"
           \/ /\ Len(m_includedFiles') = Len(m_includedFiles) + 1
              /\ Len(m_pStdErrStream') = Len(m_pStdErrStream) + 1 ]_vars
  /\ [][ (runs.phase = "traced" /\ runs'.phase = "traced"
          /\ Len(m_includedFiles') = Len(m_includedFiles) + 1) =>
           m_pStdErrStream' = Append(m_pStdErrStream, TraceLine(lastCall'.load, Len(m_includedFiles))) ]_vars

(* The same of the runs in which the standard streams exist whenever a      *)
(* trace line is written: the traced run has not stopped where the untraced *)
(* one went on.                                                             *)
C23_WithStdStreams ==
  /\ []((runs.phase = "traced" /\ runs.pos >= 1
         /\ ~(aborted /\ ~runs.script[runs.pos].aborted)) =>
          LET e == runs.script[runs.pos]
          IN /\ lastCall = e.call
             /\ m_includedFiles = e.files
             /\ (m_pStdErrStream # NullStream) = e.std)
  /\ [][ (runs.phase = "traced" /\ runs'.phase = "traced" /\ ~aborted'
          /\ Len(m_includedFiles') = Len(m_includedFiles) + 1) =>
           m_pStdErrStream' = Append(m_pStdErrStream, TraceLine(lastCall'.load, Len(m_includedFiles))) ]_vars

====
